---- MODULE Spec2Model ----
(***************************************************************************)
(* Model of the stamp collection store (src/model.py, class StampDatabase) *)
(* and of the JSON documents it reads and writes.                          *)
(*                                                                         *)
(* Python values are modelled as follows.                                  *)
(*   - Optional[T] is a set with at most one element: None is {} and a     *)
(*     value x is {x}.                                                     *)
(*   - A Stamp object is a record of its nine fields.  Python lists hold   *)
(*     references: alias[i] is the least position of the list that holds   *)
(*     the very same object as position i, so alias[i] = i when the object *)
(*     at i occurs there first.                                            *)
(*   - A JSON object (a Python dict) is a set of <<key, value>> pairs.     *)
(*   - A file is a record [kind, top, has_stamps, stamps, metadata].       *)
(***************************************************************************)
EXTENDS Integers, Sequences, FiniteSets, TLC

VARIABLES
    stamps,     \* StampDatabase.stamps: the field values of the listed objects
    alias,      \* object identity inside StampDatabase.stamps
    file_path,  \* StampDatabase.file_path: Optional[str]
    modified,   \* StampDatabase._modified
    files,      \* the file system: file name -> file content
    saved,      \* history: the list the last successful save wrote to a file
    last        \* history: the last call and its result

vars == <<stamps, alias, file_path, modified, files, saved, last>>

store == <<stamps, alias, file_path, modified>>

(***************************************************************************)
(* Bounds and input alphabets                                              *)
(***************************************************************************)
MaxStamps == 2

Ids == {"a", "b"}

UUIDs == {"u1", "u2", "u3"}

KeywordVals == {"", "rare"}

FileNames == {"a.json", "b.json"}

Paths == {""} \cup FileNames

None == {}

Some(x) == {x}

\* Python truthiness of an Optional[str]: None and "" are falsy.
Truthy(opt) == opt # None /\ opt # Some("")

TheValue(opt) == CHOOSE x \in opt : TRUE

(***************************************************************************)
(* Stamp (src/model.py, dataclass Stamp)                                   *)
(***************************************************************************)
FieldNames ==
    {"unique_id", "name", "country", "image_path", "dates", "comments",
     "catalogue_ids", "collection_number", "keywords"}

Stamp(uid, kw) ==
    [unique_id |-> uid, name |-> "", country |-> "", image_path |-> "",
     dates |-> "", comments |-> "", catalogue_ids |-> "",
     collection_number |-> "", keywords |-> kw]

\* the records a caller constructs and hands to the store
StampInputs == {Stamp(uid, kw) : uid \in Ids, kw \in KeywordVals}

\* (variant: the keywords key is not written)
to_dict_no_keywords(stamp) ==
    {<<f, stamp[f]>> : f \in FieldNames \ {"keywords"}}

\* Stamp.to_dict: asdict(self), one key per dataclass field
to_dict(stamp) == {<<f, stamp[f]>> : f \in FieldNames}

Keys(dict) == {kv[1] : kv \in dict}

DictGet(dict, key) == (CHOOSE kv \in dict : kv[1] = key)[2]

\* (variant: a record object must carry every field)
from_dict_requires_every_key(dict) == Keys(dict) # FieldNames

\* cls(**data) raises TypeError on a key that is no field of the dataclass
from_dict_raises(dict) == ~(Keys(dict) \subseteq FieldNames)

\* Stamp.from_dict: cls(**data); a missing key takes the dataclass default,
\* "" for the text fields and a fresh uuid4 (the argument uuid) for unique_id
from_dict(dict, uuid) ==
    [f \in FieldNames |->
        IF f \in Keys(dict) THEN DictGet(dict, f)
        ELSE IF f = "unique_id" THEN uuid ELSE ""]

(***************************************************************************)
(* Files and JSON documents                                                *)
(***************************************************************************)
File(kind, top, has_stamps, dicts, metadata) ==
    [kind |-> kind, top |-> top, has_stamps |-> has_stamps, stamps |-> dicts,
     metadata |-> metadata]

\* no file at this path
NoFile == File("none", "", FALSE, <<>>, {})

\* bytes that json.load rejects (also a truncated, partly written document)
Malformed == File("malformed", "", FALSE, <<>>, {})

\* a JSON document whose top level is an object
JsonDoc(has_stamps, dicts, metadata) ==
    File("json", "dict", has_stamps, dicts, metadata)

\* save's metadata block; datetime.now() is not modelled beyond one value
SaveMetadata == {<<"version", "1.0">>, <<"last_modified", "now">>}

\* the document save builds: {'stamps': [to_dict ...], 'metadata': {...}}
SaveDocument(seq) ==
    JsonDoc(TRUE, [i \in 1..Len(seq) |-> to_dict(seq[i])], SaveMetadata)

\* documents found on disk that this store did not write
LegacyDoc ==
    JsonDoc(TRUE, << to_dict(Stamp("a", "")) \ {<<"keywords", "">>} >>, {})

BadRecordDoc ==
    JsonDoc(TRUE,
            << to_dict(Stamp("b", "rare")),
               to_dict(Stamp("a", "")) \cup {<<"price", "1d">>} >>, {})

NoStampsDoc == JsonDoc(FALSE, <<>>, {<<"version", "0.9">>})

\* valid JSON whose top level is a list: data.get raises AttributeError
ListDoc == File("json", "list", FALSE, <<>>, {})

InitialFiles ==
    {NoFile, Malformed, LegacyDoc, BadRecordDoc, NoStampsDoc, ListDoc}

\* os.path.exists(file_path)
Exists(fs, path) == path \in FileNames /\ fs[path].kind # "none"

(***************************************************************************)
(* Object identity in the list                                             *)
(***************************************************************************)
Min(S) == CHOOSE x \in S : \A y \in S : x <= y

\* tags name objects; the canonical tag of a position is the least position
\* holding the same object
Canon(tags) ==
    [i \in 1..Len(tags) |-> Min({j \in 1..i : tags[j] = tags[i]})]

Fresh(n) == [i \in 1..n |-> i]

RemoveAt(seq, i) ==
    [k \in 1..(Len(seq) - 1) |-> IF k < i THEN seq[k] ELSE seq[k + 1]]

\* the first position whose record has this id, 0 when there is none
\* (the for/enumerate scans of update_stamp, delete_stamp and get_stamp)
FirstIndex(seq, unique_id) ==
    IF \E i \in 1..Len(seq) : seq[i].unique_id = unique_id
    THEN Min({i \in 1..Len(seq) : seq[i].unique_id = unique_id})
    ELSE 0

(***************************************************************************)
(* Arguments of add_stamp and update_stamp: a Stamp object the caller has  *)
(* just constructed ("new"), or the object the list holds at position pos  *)
(* ("held", obtained from get_stamp or get_all_stamps).                    *)
(***************************************************************************)
NoStamp == Stamp("", "")

NewArg(stamp) == [kind |-> "new", pos |-> 0, stamp |-> stamp]

HeldArg(pos) == [kind |-> "held", pos |-> pos, stamp |-> stamps[pos]]

NoArg == [kind |-> "none", pos |-> 0, stamp |-> NoStamp]

StampArgs(inputs) ==
    {NewArg(s) : s \in inputs} \cup {HeldArg(i) : i \in 1..Len(stamps)}

\* the history of one call: its name, its result (TRUE for a call that returns
\* nothing; for get_stamp, whether a Stamp was returned) and, for delete_stamp,
\* the id it was given
Call(op, id, ret) ==
    [op |-> op, id |-> IF op = "delete" THEN id ELSE "", ret |-> ret]

(***************************************************************************)
(* StampDatabase                                                           *)
(***************************************************************************)
Init ==
    /\ stamps = <<>>
    /\ alias = <<>>
    /\ file_path = None
    /\ modified = FALSE
    /\ \E f \in InitialFiles :
          files = [n \in FileNames |-> IF n = "a.json" THEN f ELSE NoFile]
    /\ saved = [n \in FileNames |-> None]
    /\ last = Call("init", "", TRUE)

\* (variant: a record whose id or name is already stored is not appended)
add_stamp_rejects_duplicates(arg) ==
    /\ Len(stamps) < MaxStamps
    /\ IF \E i \in 1..Len(stamps) :
             \/ stamps[i].unique_id = arg.stamp.unique_id
             \/ stamps[i].name = arg.stamp.name
       THEN UNCHANGED <<stamps, alias, modified>>
       ELSE /\ stamps' = Append(stamps, arg.stamp)
            /\ alias' = Append(alias, Len(stamps) + 1)
            /\ modified' = TRUE
    /\ last' = Call("add", "", TRUE)
    /\ UNCHANGED <<file_path, files, saved>>

\* StampDatabase.add_stamp
add_stamp(arg) ==
    /\ Len(stamps) < MaxStamps
    /\ stamps' = Append(stamps, arg.stamp)
    /\ alias' = Append(alias,
                       IF arg.kind = "held" THEN alias[arg.pos]
                       ELSE Len(stamps) + 1)
    /\ modified' = TRUE
    /\ last' = Call("add", "", TRUE)
    /\ UNCHANGED <<file_path, files, saved>>

\* (variant: the argument keeps the id it came with)
UpdatedStamps_keeps_arg_id(i, unique_id, arg) ==
    [k \in 1..Len(stamps) |-> IF k = i THEN arg.stamp ELSE stamps[k]]

\* the list after update_stamp found its match at position i: the argument
\* object gets the id (for a held object, at every position that holds it)
\* and is stored at position i
UpdatedStamps(i, unique_id, arg) ==
    LET obj == [arg.stamp EXCEPT !.unique_id = unique_id]
    IN  [k \in 1..Len(stamps) |->
            IF k = i THEN obj
            ELSE IF arg.kind = "held" /\ alias[k] = alias[arg.pos] THEN obj
            ELSE stamps[k]]

UpdatedAlias(i, arg) ==
    Canon([alias EXCEPT ![i] = IF arg.kind = "held" THEN alias[arg.pos]
                                ELSE Len(stamps) + 1])

\* (variant: the flag is set before the scan, so also when nothing matches)
update_stamp_dirty_on_miss(unique_id, arg) ==
    LET i == FirstIndex(stamps, unique_id)
    IN  /\ stamps' = IF i # 0 THEN UpdatedStamps(i, unique_id, arg) ELSE stamps
        /\ alias' = IF i # 0 THEN UpdatedAlias(i, arg) ELSE alias
        /\ modified' = TRUE
        /\ last' = Call("update", unique_id, i # 0)
        /\ UNCHANGED <<file_path, files, saved>>

\* StampDatabase.update_stamp
update_stamp(unique_id, arg) ==
    LET i == FirstIndex(stamps, unique_id)
    IN  IF i # 0
        THEN /\ stamps' = UpdatedStamps(i, unique_id, arg)
             /\ alias' = UpdatedAlias(i, arg)
             /\ modified' = TRUE
             /\ last' = Call("update", unique_id, TRUE)
             /\ UNCHANGED <<file_path, files, saved>>
        ELSE /\ last' = Call("update", unique_id, FALSE)
             /\ UNCHANGED <<stamps, alias, file_path, modified, files, saved>>

\* (variant: the flag is left as it was)
delete_stamp_keeps_flag(unique_id) ==
    LET i == FirstIndex(stamps, unique_id)
    IN  /\ stamps' = IF i # 0 THEN RemoveAt(stamps, i) ELSE stamps
        /\ alias' = IF i # 0 THEN Canon(RemoveAt(alias, i)) ELSE alias
        /\ last' = Call("delete", unique_id, i # 0)
        /\ UNCHANGED <<file_path, modified, files, saved>>

\* StampDatabase.delete_stamp
delete_stamp(unique_id) ==
    LET i == FirstIndex(stamps, unique_id)
    IN  IF i # 0
        THEN /\ stamps' = RemoveAt(stamps, i)
             /\ alias' = Canon(RemoveAt(alias, i))
             /\ modified' = TRUE
             /\ last' = Call("delete", unique_id, TRUE)
             /\ UNCHANGED <<file_path, files, saved>>
        ELSE /\ last' = Call("delete", unique_id, FALSE)
             /\ UNCHANGED <<stamps, alias, file_path, modified, files, saved>>

\* StampDatabase.get_stamp
get_stamp(unique_id) ==
    LET i == FirstIndex(stamps, unique_id)
    IN  /\ last' = Call("get", unique_id, i # 0)
        /\ UNCHANGED <<stamps, alias, file_path, modified, files, saved>>

\* (variant: the store stays bound to its file)
clear_keeps_path ==
    /\ stamps' = <<>>
    /\ alias' = <<>>
    /\ modified' = FALSE
    /\ last' = Call("clear", "", TRUE)
    /\ UNCHANGED <<file_path, files, saved>>

\* StampDatabase.clear
clear ==
    /\ stamps' = <<>>
    /\ alias' = <<>>
    /\ file_path' = None
    /\ modified' = FALSE
    /\ last' = Call("clear", "", TRUE)
    /\ UNCHANGED <<files, saved>>

(***************************************************************************)
(* Persistence                                                             *)
(***************************************************************************)
\* what open() and the reads or writes that follow it can do
LoadIO == {"ok", "open_fails"}

SaveIO == {"ok", "open_fails", "write_fails"}

\* the positions of a document whose record object has no unique_id key
MissingId(dicts) ==
    {i \in 1..Len(dicts) : "unique_id" \notin Keys(dicts[i])}

\* one fresh uuid4 per record object that has no unique_id key
UuidChoices(dicts) ==
    {g \in [MissingId(dicts) -> UUIDs] :
        \A i, j \in MissingId(dicts) : i # j => g[i] # g[j]}

\* data.get('stamps', [])
StampsOf(file) == IF file.has_stamps THEN file.stamps ELSE <<>>

\* load's try block raises: open() fails, json.load rejects the bytes,
\* data has no .get, or Stamp.from_dict raises for one record object
LoadRaises(file, io) ==
    \/ io = "open_fails"
    \/ file.kind = "malformed"
    \/ file.top # "dict"
    \/ \E i \in 1..Len(StampsOf(file)) : from_dict_raises(StampsOf(file)[i])

\* [Stamp.from_dict(stamp_data) for stamp_data in data.get('stamps', [])]
LoadedStamps(file, g) ==
    [i \in 1..Len(StampsOf(file)) |->
        from_dict(StampsOf(file)[i],
                  IF i \in DOMAIN g THEN g[i] ELSE "")]

\* (variant: the records are appended one by one, so the records before a
\* record object that from_dict rejects stay in the list)
load_partial(path, io) ==
    IF ~Exists(files, path)
    THEN /\ stamps' = <<>>
         /\ alias' = <<>>
         /\ file_path' = Some(path)
         /\ modified' = FALSE
         /\ last' = Call("load", "", TRUE)
         /\ UNCHANGED <<files, saved>>
    ELSE IF LoadRaises(files[path], io)
    THEN LET dicts == StampsOf(files[path])
             bad == {i \in 1..Len(dicts) : from_dict_raises(dicts[i])}
             n == IF io = "ok" /\ files[path].kind = "json"
                     /\ files[path].top = "dict" /\ bad # {}
                  THEN Min(bad) - 1 ELSE 0
         IN  /\ stamps' = IF n > 0
                          THEN [i \in 1..n |-> from_dict(dicts[i], "")]
                          ELSE stamps
             /\ alias' = IF n > 0 THEN Fresh(n) ELSE alias
             /\ last' = Call("load", "", FALSE)
             /\ UNCHANGED <<file_path, modified, files, saved>>
    ELSE /\ \E g \in UuidChoices(StampsOf(files[path])) :
               stamps' = LoadedStamps(files[path], g)
         /\ alias' = Fresh(Len(StampsOf(files[path])))
         /\ file_path' = Some(path)
         /\ modified' = FALSE
         /\ last' = Call("load", "", TRUE)
         /\ UNCHANGED <<files, saved>>

\* StampDatabase.load
load(path, io) ==
    IF ~Exists(files, path)
    THEN /\ stamps' = <<>>
         /\ alias' = <<>>
         /\ file_path' = Some(path)
         /\ modified' = FALSE
         /\ last' = Call("load", "", TRUE)
         /\ UNCHANGED <<files, saved>>
    ELSE IF LoadRaises(files[path], io)
    THEN /\ last' = Call("load", "", FALSE)
         /\ UNCHANGED <<stamps, alias, file_path, modified, files, saved>>
    ELSE /\ \E g \in UuidChoices(StampsOf(files[path])) :
               stamps' = LoadedStamps(files[path], g)
         /\ alias' = Fresh(Len(StampsOf(files[path])))
         /\ file_path' = Some(path)
         /\ modified' = FALSE
         /\ last' = Call("load", "", TRUE)
         /\ UNCHANGED <<files, saved>>

\* (variant: the bound path is not consulted)
SavePath_arg_only(path_arg) == path_arg

\* (variant: the bound path is preferred to the argument)
SavePath_bound_first(path_arg) ==
    IF Truthy(file_path) THEN file_path ELSE path_arg

\* save_path = file_path or self.file_path
SavePath(path_arg) == IF Truthy(path_arg) THEN path_arg ELSE file_path

\* (variant: the path is bound before the write is attempted)
save_binds_early(path_arg, io) ==
    LET save_path == SavePath(path_arg)
    IN  IF ~Truthy(save_path)
        THEN /\ last' = Call("save", "", FALSE)
             /\ UNCHANGED <<stamps, alias, file_path, modified, files, saved>>
        ELSE LET p == TheValue(save_path)
             IN  /\ file_path' = save_path
                 /\ files' = IF io = "ok"
                              THEN [files EXCEPT ![p] = SaveDocument(stamps)]
                              ELSE IF io = "write_fails"
                              THEN [files EXCEPT ![p] = Malformed]
                              ELSE files
                 /\ saved' = IF io = "ok"
                              THEN [saved EXCEPT ![p] = Some(stamps)]
                              ELSE IF io = "write_fails"
                              THEN [saved EXCEPT ![p] = None]
                              ELSE saved
                 /\ modified' = IF io = "ok" THEN FALSE ELSE modified
                 /\ last' = Call("save", "", io = "ok")
                 /\ UNCHANGED <<stamps, alias>>

\* StampDatabase.save
save(path_arg, io) ==
    LET save_path == SavePath(path_arg)
    IN  IF ~Truthy(save_path)
        THEN /\ last' = Call("save", "", FALSE)
             /\ UNCHANGED <<stamps, alias, file_path, modified, files, saved>>
        ELSE LET p == TheValue(save_path)
             IN  IF io = "ok"
                 THEN /\ files' = [files EXCEPT ![p] = SaveDocument(stamps)]
                      /\ saved' = [saved EXCEPT ![p] = Some(stamps)]
                      /\ file_path' = save_path
                      /\ modified' = FALSE
                      /\ last' = Call("save", "", TRUE)
                      /\ UNCHANGED <<stamps, alias>>
                 ELSE /\ files' = IF io = "write_fails"
                                  THEN [files EXCEPT ![p] = Malformed]
                                  ELSE files
                      /\ saved' = IF io = "write_fails"
                                  THEN [saved EXCEPT ![p] = None]
                                  ELSE saved
                      /\ last' = Call("save", "", FALSE)
                      /\ UNCHANGED <<stamps, alias, file_path, modified>>

(***************************************************************************)
(* The store under every sequence of calls, the Stamp objects being drawn  *)
(* from inputs and the path arguments from paths                           *)
(***************************************************************************)
PathArgs(paths) == {None} \cup {Some(p) : p \in paths}

StoreCalls(inputs, paths) ==
    \/ \E arg \in StampArgs(inputs) : add_stamp(arg)
    \/ \E unique_id \in Ids, arg \in StampArgs(inputs) :
          update_stamp(unique_id, arg)
    \/ \E unique_id \in Ids : delete_stamp(unique_id)
    \/ \E unique_id \in Ids : get_stamp(unique_id)
    \/ clear
    \/ \E path \in paths :
          \E io \in (IF Exists(files, path) THEN LoadIO ELSE {"ok"}) :
             load(path, io)
    \/ \E path_arg \in PathArgs(paths) :
          \E io \in (IF Truthy(SavePath(path_arg)) THEN SaveIO ELSE {"ok"}) :
             save(path_arg, io)

\* one file name, and the empty string
OnePath == {"", "a.json"}

Next == StoreCalls(StampInputs, OnePath)

Spec == Init /\ [][Next]_vars

(***************************************************************************)
(* The store with two file names, the Stamp objects being of one kind      *)
(***************************************************************************)
FileStamps == {Stamp("a", "rare")}

NextFiles == StoreCalls(FileStamps, Paths)

SpecFiles == Init /\ [][NextFiles]_vars

(***************************************************************************)
(* get_all_stamps and what its caller does with the list it gets.  A list  *)
(* object the caller holds is a record of its items, of the identity of    *)
(* the items (as alias), and of whether it is the very list object that    *)
(* StampDatabase.stamps refers to.                                         *)
(***************************************************************************)
ListObject(items, tags, same_object) ==
    [stamps |-> items, alias |-> tags, same_object |-> same_object]

\* the result of a query: the call and the value it returned
Result(op, ret) == [op |-> op, id |-> "", ret |-> ret]

\* (variant: the store hands out its own list object)
get_all_stamps_no_copy ==
    /\ last' = Result("get_all", ListObject(stamps, alias, TRUE))
    /\ UNCHANGED <<stamps, alias, file_path, modified, files, saved>>

\* StampDatabase.get_all_stamps: self.stamps.copy(), a new list object that
\* holds the same Stamp objects
get_all_stamps ==
    /\ last' = Result("get_all", ListObject(stamps, alias, FALSE))
    /\ UNCHANGED <<stamps, alias, file_path, modified, files, saved>>

\* StampDatabase.get_total_count
get_total_count == Len(stamps)

Reverse(seq) == [i \in 1..Len(seq) |-> seq[Len(seq) + 1 - i]]

\* the caller changes the list object it got from get_all_stamps; the store's
\* list changes with it exactly when it is the same object
ListBecomes(items, tags) ==
    /\ last.op \in {"get_all", "list_op"}
    /\ last' = Result("list_op",
                      ListObject(items, Canon(tags), last.ret.same_object))
    /\ IF last.ret.same_object
       THEN stamps' = items /\ alias' = Canon(tags)
       ELSE UNCHANGED <<stamps, alias>>
    /\ UNCHANGED <<file_path, modified, files, saved>>

\* all_stamps.append(stamp)
list_append(stamp) ==
    /\ last.op \in {"get_all", "list_op"}
    /\ Len(last.ret.stamps) < MaxStamps
    /\ ListBecomes(Append(last.ret.stamps, stamp),
                   Append(last.ret.alias, Len(last.ret.stamps) + 1))

\* del all_stamps[i]
list_remove(i) ==
    /\ last.op \in {"get_all", "list_op"}
    /\ i \in 1..Len(last.ret.stamps)
    /\ ListBecomes(RemoveAt(last.ret.stamps, i), RemoveAt(last.ret.alias, i))

\* all_stamps.reverse()
list_reverse ==
    /\ last.op \in {"get_all", "list_op"}
    /\ ListBecomes(Reverse(last.ret.stamps), Reverse(last.ret.alias))

\* all_stamps.clear()
list_clear ==
    /\ last.op \in {"get_all", "list_op"}
    /\ ListBecomes(<<>>, <<>>)

\* records that share a name and an image path, and records that share an id
ListStamps ==
    { [Stamp("a", "") EXCEPT !.name = "Penny Black", !.image_path = "/p.jpg"],
      [Stamp("b", "") EXCEPT !.name = "Penny Black", !.image_path = "/p.jpg"],
      [Stamp("a", "") EXCEPT !.name = "Blue Mauritius"] }

\* the store of a process that reads and writes no file
InitMemory ==
    /\ Init
    /\ files = [n \in FileNames |-> NoFile]

NextList ==
    \/ \E arg \in StampArgs(ListStamps) : add_stamp(arg)
    \/ \E unique_id \in Ids : delete_stamp(unique_id)
    \/ get_all_stamps
    \/ \E stamp \in ListStamps : list_append(stamp)
    \/ \E i \in 1..MaxStamps : list_remove(i)
    \/ list_reverse
    \/ list_clear

SpecList == InitMemory /\ [][NextList]_vars

(***************************************************************************)
(* Text: Python str values are TLA+ strings; the str methods and the       *)
(* regular expressions the code uses are computed character by character.  *)
(***************************************************************************)
CharAt(s, i) == SubSeq(s, i, i)

\* the characters str.strip() removes and \s matches (of those in use here)
Whitespace == {" ", "\t"}

IsSpace(c) == c \in Whitespace

UpperLetters == "ABCDEFGHIJKLMNOPQRSTUVWXYZ"

LowerLetters == "abcdefghijklmnopqrstuvwxyz"

LetterIndex(letters, c) ==
    IF \E i \in 1..Len(letters) : CharAt(letters, i) = c
    THEN CHOOSE i \in 1..Len(letters) : CharAt(letters, i) = c
    ELSE 0

\* the strings of the model are ASCII: this character stands for the German
\* sharp s (U+00DF), a lower-case letter whose upper case is "SS"
SharpS == "%"

\* str.lower() of one character: the sharp s is its own lower case
LowerChar(c) ==
    IF LetterIndex(UpperLetters, c) # 0
    THEN CharAt(LowerLetters, LetterIndex(UpperLetters, c))
    ELSE c

\* str.upper() of one character: the upper case of the sharp s is "SS"
UpperChar(c) ==
    IF c = SharpS THEN "SS"
    ELSE IF LetterIndex(LowerLetters, c) # 0
    THEN CharAt(UpperLetters, LetterIndex(LowerLetters, c))
    ELSE c

RECURSIVE lower(_)
lower(s) == IF s = "" THEN "" ELSE LowerChar(Head(s)) \o lower(Tail(s))

RECURSIVE upper(_)
upper(s) == IF s = "" THEN "" ELSE UpperChar(Head(s)) \o upper(Tail(s))

RECURSIVE lstrip(_)
lstrip(s) == IF s # "" /\ IsSpace(Head(s)) THEN lstrip(Tail(s)) ELSE s

RECURSIVE rstrip(_)
rstrip(s) ==
    IF s # "" /\ IsSpace(CharAt(s, Len(s)))
    THEN rstrip(SubSeq(s, 1, Len(s) - 1))
    ELSE s

\* str.strip()
strip(s) == rstrip(lstrip(s))

\* sub in s
Contains(sub, s) ==
    \E i \in 1..(Len(s) - Len(sub) + 1) : SubSeq(s, i, i + Len(sub) - 1) = sub

\* s.endswith(suffix)
EndsWith(s, suffix) ==
    /\ Len(s) >= Len(suffix)
    /\ SubSeq(s, Len(s) - Len(suffix) + 1, Len(s)) = suffix

Digits == "0123456789"

\* \d (of the decimal digits, the ASCII ones)
IsDigit(c) == LetterIndex(Digits, c) # 0

AllDigits(s) == \A i \in 1..Len(s) : IsDigit(CharAt(s, i))

\* int() of a non-empty string of digits
RECURSIVE IntOfDigits(_)
IntOfDigits(s) ==
    IF Len(s) = 1 THEN LetterIndex(Digits, s) - 1
    ELSE IntOfDigits(SubSeq(s, 1, Len(s) - 1)) * 10
            + (LetterIndex(Digits, CharAt(s, Len(s))) - 1)

\* str() of a natural number, as in f"{decade}s"
RECURSIVE StrOfNat(_)
StrOfNat(n) ==
    IF n < 10 THEN CharAt(Digits, n + 1)
    ELSE StrOfNat(n \div 10) \o CharAt(Digits, (n % 10) + 1)

\* s without its underscores
RECURSIVE WithoutUnderscores(_)
WithoutUnderscores(s) ==
    IF s = "" THEN ""
    ELSE (IF Head(s) = "_" THEN "" ELSE Head(s)) \o WithoutUnderscores(Tail(s))

\* int(s): whitespace around, an optional sign, digits with single underscores
\* between them; None stands for ValueError
PyInt(s) ==
    LET t == strip(s)
        signed == t # "" /\ Head(t) \in {"+", "-"}
        body == IF signed THEN Tail(t) ELSE t
        wellformed ==
            /\ body # ""
            /\ \A i \in 1..Len(body) :
                  \/ IsDigit(CharAt(body, i))
                  \/ /\ CharAt(body, i) = "_"
                     /\ 1 < i
                     /\ i < Len(body)
                     /\ IsDigit(CharAt(body, i - 1))
                     /\ IsDigit(CharAt(body, i + 1))
    IN  IF ~wellformed THEN None
        ELSE IF signed /\ Head(t) = "-"
        THEN Some(0 - IntOfDigits(WithoutUnderscores(body)))
        ELSE Some(IntOfDigits(WithoutUnderscores(body)))

(***************************************************************************)
(* The date and decade parser (src/model.py)                               *)
(***************************************************************************)
CircaPrefixes == <<"circa", "c.", "ca.">>

\* re.sub(r'^(circa|c\.|ca\.)\s*', '', date_str, flags=re.IGNORECASE)
RemoveCirca(s) ==
    LET matching == {k \in 1..Len(CircaPrefixes) :
                        /\ Len(s) >= Len(CircaPrefixes[k])
                        /\ lower(SubSeq(s, 1, Len(CircaPrefixes[k])))
                              = CircaPrefixes[k]}
    IN  IF matching = {} THEN s
        ELSE lstrip(SubSeq(s, Len(CircaPrefixes[Min(matching)]) + 1, Len(s)))

\* the text between the two years of a string that begins and ends with four
\* digits
Between(s) == SubSeq(s, 5, Len(s) - 4)

TwoYears(s) ==
    /\ Len(s) >= 9
    /\ AllDigits(SubSeq(s, 1, 4))
    /\ AllDigits(SubSeq(s, Len(s) - 3, Len(s)))

\* re.match(r'^(\d{4})\s*-\s*(\d{4})$', date_str)
MatchesRangeDash(s) == TwoYears(s) /\ strip(Between(s)) = "-"

\* (variant: the whitespace around 'to' is optional, as it is around '-')
MatchesRangeTo_optional_space(s) ==
    TwoYears(s) /\ lower(strip(Between(s))) = "to"

\* re.match(r'^(\d{4})\s+to\s+(\d{4})$', date_str, flags=re.IGNORECASE)
MatchesRangeTo(s) ==
    /\ TwoYears(s)
    /\ IsSpace(Head(Between(s)))
    /\ IsSpace(CharAt(Between(s), Len(Between(s))))
    /\ lower(strip(Between(s))) = "to"

\* re.match(r'^(\d{4})$', date_str)
MatchesSingleYear(s) == Len(s) = 4 /\ AllDigits(s)

MidYear(s) ==
    (IntOfDigits(SubSeq(s, 1, 4)) + IntOfDigits(SubSeq(s, Len(s) - 3, Len(s))))
       \div 2

\* parse_date_field: Optional[int]
parse_date_field(date_str) ==
    IF date_str = "" THEN None
    ELSE IF strip(date_str) = "" THEN None
    ELSE LET s == strip(RemoveCirca(strip(date_str)))
         IN  IF MatchesRangeDash(s) THEN Some(MidYear(s))
             ELSE IF MatchesRangeTo(s) THEN Some(MidYear(s))
             ELSE IF MatchesSingleYear(s) THEN Some(IntOfDigits(s))
             ELSE None

\* (variant: the year is rounded to the nearest decade)
get_decade_from_year_rounds(year) == ((year + 5) \div 10) * 10

\* get_decade_from_year
get_decade_from_year(year) == (year \div 10) * 10

\* (variant: the trailing 's' is handed to int() with the digits)
parse_decade_string_keeps_suffix(decade_str) ==
    IF decade_str = "Unknown" THEN None ELSE PyInt(decade_str)

\* parse_decade_string: Optional[int]
parse_decade_string(decade_str) ==
    IF decade_str = "Unknown" THEN None
    ELSE IF EndsWith(decade_str, "s")
    THEN PyInt(SubSeq(decade_str, 1, Len(decade_str) - 1))
    ELSE PyInt(decade_str)

(***************************************************************************)
(* The read-only queries of StampDatabase and the controller's filter      *)
(***************************************************************************)
\* searchable_fields, in the order search_stamps lists them
SearchableFields ==
    <<"name", "country", "dates", "collection_number", "catalogue_ids",
      "keywords", "comments">>

\* (variant: no break after the first field that matches)
RECURSIVE ScanFields_no_break(_, _, _)
ScanFields_no_break(stamp, search_lower, k) ==
    IF k > Len(SearchableFields) THEN <<>>
    ELSE LET field == stamp[SearchableFields[k]]
         IN  IF field # "" /\ Contains(search_lower, lower(field))
             THEN <<stamp>> \o ScanFields_no_break(stamp, search_lower, k + 1)
             ELSE ScanFields_no_break(stamp, search_lower, k + 1)

\* the inner loop of search_stamps from the k-th field on: what it appends to
\* matching_stamps for one stamp
RECURSIVE ScanFields(_, _, _)
ScanFields(stamp, search_lower, k) ==
    IF k > Len(SearchableFields) THEN <<>>
    ELSE LET field == stamp[SearchableFields[k]]
         IN  IF field # "" /\ Contains(search_lower, lower(field))
             THEN <<stamp>>
             ELSE ScanFields(stamp, search_lower, k + 1)

\* the outer loop of search_stamps
RECURSIVE ScanStamps(_, _)
ScanStamps(seq, search_lower) ==
    IF seq = <<>> THEN <<>>
    ELSE ScanFields(Head(seq), search_lower, 1)
            \o ScanStamps(Tail(seq), search_lower)

\* StampDatabase.search_stamps
search_stamps(search_text) ==
    IF search_text = "" \/ strip(search_text) = ""
    THEN stamps
    ELSE ScanStamps(stamps, strip(lower(search_text)))

\* (variant: the country is compared without regard to case)
get_filtered_stamps_any_case(search_text, filter, decade_filter) ==
    LET searched == IF search_text # "" /\ strip(search_text) # ""
                    THEN search_stamps(search_text)
                    ELSE stamps
        InCountry(stamp) == lower(stamp.country) = lower(filter)
        by_country == IF filter # "All Countries"
                      THEN SelectSeq(searched, InCountry)
                      ELSE searched
        filter_decade == parse_decade_string(decade_filter)
        InDecade(stamp) ==
            LET year == parse_date_field(stamp.dates)
            IN  IF filter_decade = None
                THEN year = None
                ELSE /\ year # None
                     /\ get_decade_from_year(TheValue(year))
                           = TheValue(filter_decade)
    IN  IF decade_filter # "All Decades"
        THEN SelectSeq(by_country, InDecade)
        ELSE by_country

\* (variant: the parsed decade filter is tested for truth, so that the decade
\* 0 is taken for 'Unknown')
get_filtered_stamps_zero_is_unknown(search_text, filter, decade_filter) ==
    LET searched == IF search_text # "" /\ strip(search_text) # ""
                    THEN search_stamps(search_text)
                    ELSE stamps
        InCountry(stamp) == stamp.country = filter
        by_country == IF filter # "All Countries"
                      THEN SelectSeq(searched, InCountry)
                      ELSE searched
        filter_decade == parse_decade_string(decade_filter)
        InDecade(stamp) ==
            LET year == parse_date_field(stamp.dates)
            IN  IF filter_decade = None \/ filter_decade = Some(0)
                THEN year = None
                ELSE /\ year # None
                     /\ get_decade_from_year(TheValue(year))
                           = TheValue(filter_decade)
    IN  IF decade_filter # "All Decades"
        THEN SelectSeq(by_country, InDecade)
        ELSE by_country

\* StampController.get_filtered_stamps, its three arguments being the
\* controller's current_search_text, current_filter and current_decade_filter
get_filtered_stamps(search_text, filter, decade_filter) ==
    LET searched == IF search_text # "" /\ strip(search_text) # ""
                    THEN search_stamps(search_text)
                    ELSE stamps
        InCountry(stamp) == stamp.country = filter
        by_country == IF filter # "All Countries"
                      THEN SelectSeq(searched, InCountry)
                      ELSE searched
        filter_decade == parse_decade_string(decade_filter)
        InDecade(stamp) ==
            LET year == parse_date_field(stamp.dates)
            IN  IF filter_decade = None
                THEN year = None
                ELSE /\ year # None
                     /\ get_decade_from_year(TheValue(year))
                           = TheValue(filter_decade)
    IN  IF decade_filter # "All Decades"
        THEN SelectSeq(by_country, InDecade)
        ELSE by_country

\* (variant: the record being edited is not excluded)
is_name_in_use_no_exclude(name, exclude_id) ==
    IF name = "" \/ strip(name) = "" THEN FALSE
    ELSE \E i \in 1..Len(stamps) : stamps[i].name = name

\* StampDatabase.is_name_in_use; exclude_id is an Optional[str]
is_name_in_use(name, exclude_id) ==
    IF name = "" \/ strip(name) = "" THEN FALSE
    ELSE \E i \in 1..Len(stamps) :
            /\ Some(stamps[i].unique_id) # exclude_id
            /\ stamps[i].name = name

\* StampDatabase.is_image_path_in_use
is_image_path_in_use(image_path, exclude_id) ==
    IF image_path = "" \/ strip(image_path) = "" THEN FALSE
    ELSE \E i \in 1..Len(stamps) :
            /\ Some(stamps[i].unique_id) # exclude_id
            /\ stamps[i].image_path = image_path

\* dict.get(key, default)
DictGetOr(dict, key, default) ==
    IF key \in Keys(dict) THEN DictGet(dict, key) ELSE default

\* dict[key] = value
DictPut(dict, key, value) ==
    {kv \in dict : kv[1] # key} \cup {<<key, value>>}

\* counts[label] = counts.get(label, 0) + 1, for each label in turn
RECURSIVE CountLoop(_, _)
CountLoop(labels, counts) ==
    IF labels = <<>> THEN counts
    ELSE CountLoop(Tail(labels),
                   DictPut(counts, Head(labels),
                           DictGetOr(counts, Head(labels), 0) + 1))

\* (variant: only the empty country is replaced)
CountryLabel_no_strip(stamp) ==
    IF stamp.country # "" THEN stamp.country ELSE "Unknown"

\* stamp.country if stamp.country and stamp.country.strip() else "Unknown"
CountryLabel(stamp) ==
    IF stamp.country # "" /\ strip(stamp.country) # ""
    THEN stamp.country
    ELSE "Unknown"

\* StampDatabase.get_country_statistics
get_country_statistics ==
    CountLoop([i \in 1..Len(stamps) |-> CountryLabel(stamps[i])], {})

\* (variant: a record whose dates do not parse is counted under the label of
\* the empty decade)
DecadeLabel_unparsed_blank(stamp) ==
    LET year == parse_date_field(stamp.dates)
    IN  IF year # None
        THEN StrOfNat(get_decade_from_year(TheValue(year))) \o "s"
        ELSE "s"

\* the label get_decade_statistics counts a stamp under
DecadeLabel(stamp) ==
    LET year == parse_date_field(stamp.dates)
    IN  IF year # None
        THEN StrOfNat(get_decade_from_year(TheValue(year))) \o "s"
        ELSE "Unknown"

\* StampDatabase.get_decade_statistics
get_decade_statistics ==
    CountLoop([i \in 1..Len(stamps) |-> DecadeLabel(stamps[i])], {})

(***************************************************************************)
(* The queries on stores of up to MaxQueryLen records                      *)
(***************************************************************************)
MaxQueryLen == 3

QueryStamps ==
    { [Stamp("a", "rare") EXCEPT !.name = "Penny Black", !.country = "UK",
                                 !.image_path = "/p.jpg", !.dates = "1840",
                                 !.comments = "penny"],
      [Stamp("b", "") EXCEPT !.name = "Penny Black", !.country = "uk",
                             !.image_path = "/p.jpg", !.dates = "1845",
                             !.collection_number = "PB2"],
      [Stamp("a", "") EXCEPT !.name = "penny black ", !.country = " ",
                             !.image_path = "/P.jpg", !.dates = "invalid",
                             !.comments = "Stra" \o SharpS \o "e"],
      [Stamp("b", "") EXCEPT !.dates = "c. 1849-1852",
                             !.catalogue_ids = "SG 1"],
      [Stamp("a", "") EXCEPT !.name = "Blue", !.country = "Unknown",
                             !.dates = "1850 TO 1859"] }

SearchTexts ==
    {"", " ", "penny", "PENNY", " Penny\t", SharpS, "uk", "184", "to", "sg 1",
     "zz"}

FilterTexts == {"", " ", "penny"}

CountryFilters == {"All Countries", "UK", "Unknown", ""}

DecadeFilters == {"All Decades", "Unknown", "1840s", "1850s"}

NameArgs == {"", " ", "Penny Black", "penny black", "Penny Black "}

ImagePathArgs == {"", " ", "/p.jpg", "/P.jpg"}

ExcludeArgs == {None, Some("a"), Some("b")}

\* the history of one query: its name, its arguments and its result
Query(op, args, ret) == [op |-> op, id |-> "", args |-> args, ret |-> ret]

\* (variant: a query sets the dirty flag, as the calls that change the list do)
Ask_marks_dirty(op, args, ret) ==
    /\ last.op = "init"
    /\ last' = Query(op, args, ret)
    /\ modified' = TRUE
    /\ UNCHANGED <<stamps, alias, file_path, files, saved>>

\* a query is called on the store as it was built and returns ret; the store
\* is left alone, so that a second query would be asked of the same store
Ask(op, args, ret) ==
    /\ last.op = "init"
    /\ last' = Query(op, args, ret)
    /\ UNCHANGED <<stamps, alias, file_path, modified, files, saved>>

\* a store into which up to MaxQueryLen records have been added
InitQuery ==
    /\ \E n \in 0..MaxQueryLen : stamps \in [1..n -> QueryStamps]
    /\ alias = Fresh(Len(stamps))
    /\ file_path = None
    /\ modified = (stamps # <<>>)
    /\ files = [n \in FileNames |-> NoFile]
    /\ saved = [n \in FileNames |-> None]
    /\ last = Call("init", "", TRUE)

NextQuery ==
    \/ \E search_text \in SearchTexts :
          Ask("search", <<search_text>>, search_stamps(search_text))
    \/ \E search_text \in FilterTexts, filter \in CountryFilters,
          decade_filter \in DecadeFilters :
          Ask("filter", <<search_text, filter, decade_filter>>,
              get_filtered_stamps(search_text, filter, decade_filter))
    \/ \E name \in NameArgs, exclude_id \in ExcludeArgs :
          Ask("name_in_use", <<name, exclude_id>>,
              is_name_in_use(name, exclude_id))
    \/ \E image_path \in ImagePathArgs, exclude_id \in ExcludeArgs :
          Ask("image_path_in_use", <<image_path, exclude_id>>,
              is_image_path_in_use(image_path, exclude_id))
    \/ Ask("country_statistics", <<>>, get_country_statistics)
    \/ Ask("decade_statistics", <<>>, get_decade_statistics)

SpecQuery == InitQuery /\ [][NextQuery]_vars

(***************************************************************************)
(* Loading documents whose record objects omit fields                      *)
(***************************************************************************)
MaxDocLen == 2

\* a record with a value in every field
FullStamp(uid) ==
    [unique_id |-> uid, name |-> "Penny Black", country |-> "UK",
     image_path |-> "/p.jpg", dates |-> "1840", comments |-> "penny",
     catalogue_ids |-> "SG 1", collection_number |-> "PB1",
     keywords |-> "rare"]

Without(dict, keys) == {kv \in dict : kv[1] \notin keys}

\* record objects as earlier versions of the program, or a hand, wrote them:
\* complete, without keywords, without four fields, with the id only, without
\* the id, and empty
PartialRecords ==
    { to_dict(FullStamp("a")),
      Without(to_dict(FullStamp("a")), {"keywords"}),
      Without(to_dict(FullStamp("b")),
              {"keywords", "comments", "catalogue_ids", "collection_number"}),
      Without(to_dict(FullStamp("b")), FieldNames \ {"unique_id"}),
      Without(to_dict(FullStamp("a")), {"unique_id"}),
      {} }

PartialDocs ==
    {JsonDoc(TRUE, dicts, {}) :
        dicts \in UNION {[1..n -> PartialRecords] : n \in 0..MaxDocLen}}

InitLoad ==
    /\ stamps = <<>>
    /\ alias = <<>>
    /\ file_path = None
    /\ modified = FALSE
    /\ \E f \in PartialDocs :
          files = [n \in FileNames |-> IF n = "a.json" THEN f ELSE NoFile]
    /\ saved = [n \in FileNames |-> None]
    /\ last = Call("init", "", TRUE)

NextLoad ==
    \/ \E stamp \in FileStamps : add_stamp(NewArg(stamp))
    \/ \E io \in LoadIO : load("a.json", io)

SpecLoad == InitLoad /\ [][NextLoad]_vars

(***************************************************************************)
(* The date helpers applied to texts, years and labels.  A date text is    *)
(* put together from its parts, so that what it should parse to is known   *)
(* from the parts.                                                         *)
(***************************************************************************)
\* the largest year that four digits write
MaxYear == 9999

\* four-digit years as they are written, with their numbers
YearTexts ==
    {<<"0005", 5>>, <<"1840", 1840>>, <<"1845", 1845>>, <<"1850", 1850>>,
     <<"1859", 1859>>, <<"9999", 9999>>}

RangeYearTexts ==
    {<<"0005", 5>>, <<"1840", 1840>>, <<"1845", 1845>>, <<"9999", 9999>>}

OuterSpaces == {"", " "}

PrefixTexts == {"", "circa", "CIRCA", "c.", "Ca.", "cA."}

PrefixGaps == {"", " "}

DashTexts == {"-", " - ", "\t-  "}

ToTexts == {" to ", "\tTO ", "  To\t"}

\* texts that are neither a four-digit year nor a range of two
OtherTexts ==
    {"", "12345", "184", "1840s", "abc", "1840-185", "1840to1850",
     "1840 to1850", "1840to 1850", "1840-", "-1840", "1840/1850",
     "1840 - 1850 - 1860", "18 40", "1840 1850", "1840--1850", "1840 t 1850",
     ". 1840", "c 1840", "ca 1840"}

\* the parts of a date text: leading whitespace, circa prefix, whitespace
\* after the prefix, body, trailing whitespace
DatePart(lead, prefix, gap, body, trail) ==
    [lead |-> lead, prefix |-> prefix, gap |-> gap, body |-> body,
     trail |-> trail]

SingleBody(y) == [kind |-> "single", text |-> y[1], year |-> Some(y[2])]

RangeBody(kind, y1, sep, y2) ==
    [kind |-> kind, text |-> y1[1] \o sep \o y2[1],
     year |-> Some((y1[2] + y2[2]) \div 2)]

OtherBody(text) == [kind |-> "other", text |-> text, year |-> None]

\* a body that brings a circa prefix of its own
PrefixedBody(prefix) ==
    [kind |-> "prefixed", text |-> prefix \o " 1840", year |-> Some(1840)]

DateBodies ==
    {SingleBody(y) : y \in YearTexts}
    \cup {RangeBody("dash", y1, sep, y2) :
             y1 \in RangeYearTexts, sep \in DashTexts, y2 \in RangeYearTexts}
    \cup {RangeBody("to", y1, sep, y2) :
             y1 \in RangeYearTexts, sep \in ToTexts, y2 \in RangeYearTexts}
    \cup {OtherBody(text) : text \in OtherTexts}
    \cup {PrefixedBody(prefix) : prefix \in PrefixTexts \ {""}}

DateParts ==
    {DatePart(lead, prefix, gap, body, trail) :
        lead \in OuterSpaces, prefix \in PrefixTexts, gap \in PrefixGaps,
        body \in DateBodies, trail \in OuterSpaces}

DateText(part) ==
    part.lead \o part.prefix \o part.gap \o part.body.text \o part.trail

\* labels of the decade filter that are not a number followed by 's'
OtherLabels ==
    {"Unknown", "unknown", "", "s", "abc", "All Decades", "1840ss", "18x0s",
     "decades", "1.5s", "1e3s", "1840 s0", "s1840"}

Input(kind, args) == [op |-> kind, id |-> "", args |-> args, ret |-> None]

InitParser ==
    /\ stamps = <<>>
    /\ alias = <<>>
    /\ file_path = None
    /\ modified = FALSE
    /\ files = [n \in FileNames |-> NoFile]
    /\ saved = [n \in FileNames |-> None]
    /\ last \in {Input("date_text", <<part>>) : part \in DateParts}
          \cup {Input("year", <<year>>) : year \in 0..MaxYear}
          \cup {Input("label", <<label>>) : label \in OtherLabels}

\* the function is applied to the input drawn and its result is recorded
Apply(kind, op, ret) ==
    /\ last.op = kind
    /\ last' = Query(op, last.args, ret)
    /\ UNCHANGED <<stamps, alias, file_path, modified, files, saved>>

\* decade_label = f"{decade}s" of the decade of a year
DecadeLabelText(year) == StrOfNat(get_decade_from_year(year)) \o "s"

NextParser ==
    \/ Apply("date_text", "parse_date_field",
             parse_date_field(DateText(last.args[1])))
    \/ Apply("year", "get_decade_from_year",
             get_decade_from_year(last.args[1]))
    \/ Apply("year", "decade_label",
             [label |-> DecadeLabelText(last.args[1]),
              parsed |-> parse_decade_string(DecadeLabelText(last.args[1]))])
    \/ Apply("label", "parse_decade_string",
             parse_decade_string(last.args[1]))

SpecParser == InitParser /\ [][NextParser]_vars

(***************************************************************************)
(* The decade filter offered the labels of the decade statistics           *)
(***************************************************************************)
DatedStamp(name, dates) ==
    [Stamp("a", "") EXCEPT !.name = name, !.dates = dates]

DecadeStamps ==
    { DatedStamp("S1", "1840"), DatedStamp("S2", "1845 - 1850"),
      DatedStamp("S3", "circa 1850"), DatedStamp("S4", "unknown"),
      DatedStamp("S5", ""), DatedStamp("S6", "0005") }

\* a store into which up to MaxQueryLen dated records have been added
InitDecades ==
    /\ \E n \in 0..MaxQueryLen : stamps \in [1..n -> DecadeStamps]
    /\ alias = Fresh(Len(stamps))
    /\ file_path = None
    /\ modified = (stamps # <<>>)
    /\ files = [n \in FileNames |-> NoFile]
    /\ saved = [n \in FileNames |-> None]
    /\ last = Call("init", "", TRUE)

\* the statistics are taken and the filter is set to each of their labels in
\* turn, with no search text and every country
NextDecades ==
    Ask("decade_filters", <<>>,
        [stats |-> get_decade_statistics,
         results |-> [label \in Keys(get_decade_statistics) |->
                         get_filtered_stamps("", "All Countries", label)]])

SpecDecades == InitDecades /\ [][NextDecades]_vars

(***************************************************************************)
(* Every read-only query, asked of stores that are bound or unbound, dirty *)
(* or clean                                                                *)
(***************************************************************************)
\* StampDatabase.is_modified
is_modified == modified

\* the stores the calls of StampDatabase lead to: an unbound store is dirty
\* unless it is empty; a store bound to a.json is clean after load or save,
\* the file then holding its records, and dirty after a later add
InitReadOnly ==
    /\ \E n \in 0..MaxStamps : stamps \in [1..n -> ListStamps]
    /\ alias = Fresh(Len(stamps))
    /\ file_path \in {None, Some("a.json")}
    /\ modified \in BOOLEAN
    /\ (file_path = None /\ ~modified) => stamps = <<>>
    /\ files = [n \in FileNames |->
                  IF n = "a.json" /\ file_path # None /\ ~modified
                     /\ stamps # <<>>
                  THEN SaveDocument(stamps) ELSE NoFile]
    /\ saved = [n \in FileNames |-> None]
    /\ last = Call("init", "", TRUE)

NextReadOnly ==
    \/ \E unique_id \in Ids : get_stamp(unique_id)
    \/ get_all_stamps
    \/ \E search_text \in SearchTexts :
          Ask("search", <<search_text>>, search_stamps(search_text))
    \/ Ask("country_statistics", <<>>, get_country_statistics)
    \/ Ask("decade_statistics", <<>>, get_decade_statistics)
    \/ Ask("total_count", <<>>, get_total_count)
    \/ \E name \in NameArgs, exclude_id \in ExcludeArgs :
          Ask("name_in_use", <<name, exclude_id>>,
              is_name_in_use(name, exclude_id))
    \/ \E image_path \in ImagePathArgs, exclude_id \in ExcludeArgs :
          Ask("image_path_in_use", <<image_path, exclude_id>>,
              is_image_path_in_use(image_path, exclude_id))
    \/ Ask("is_modified", <<>>, is_modified)

SpecReadOnly == InitReadOnly /\ [][NextReadOnly]_vars

(***************************************************************************)
(* StampController (src/controller.py): the handlers of the menu and of    *)
(* the buttons.  A handler calls several methods of the store in a row, so *)
(* the methods are given here as functions from the store and the file     *)
(* system, taken as one value, to that value after the call and the result *)
(* of the call.                                                            *)
(***************************************************************************)
Now ==
    [stamps |-> stamps, alias |-> alias, file_path |-> file_path,
     modified |-> modified, files |-> files, saved |-> saved]

Becomes(s) ==
    /\ stamps' = s.stamps
    /\ alias' = s.alias
    /\ file_path' = s.file_path
    /\ modified' = s.modified
    /\ files' = s.files
    /\ saved' = s.saved

Returns(s, ret) == [s |-> s, ret |-> ret]

\* StampDatabase.save
db_save(s, path_arg, io) ==
    LET save_path == IF Truthy(path_arg) THEN path_arg ELSE s.file_path
    IN  IF ~Truthy(save_path) THEN Returns(s, FALSE)
        ELSE LET p == TheValue(save_path)
             IN  IF io = "ok"
                 THEN Returns([s EXCEPT
                                 !.files = [@ EXCEPT
                                              ![p] = SaveDocument(s.stamps)],
                                 !.saved = [@ EXCEPT ![p] = Some(s.stamps)],
                                 !.file_path = save_path,
                                 !.modified = FALSE],
                              TRUE)
                 ELSE IF io = "write_fails"
                 THEN Returns([s EXCEPT
                                 !.files = [@ EXCEPT ![p] = Malformed],
                                 !.saved = [@ EXCEPT ![p] = None]],
                              FALSE)
                 ELSE Returns(s, FALSE)

\* one fresh uuid4 per record object without an id in the file load reads
LoadChoices(s, path) ==
    IF Exists(s.files, path) THEN UuidChoices(StampsOf(s.files[path]))
    ELSE UuidChoices(<<>>)

\* StampDatabase.load
db_load(s, path, io, g) ==
    IF ~Exists(s.files, path)
    THEN Returns([s EXCEPT !.stamps = <<>>, !.alias = <<>>,
                           !.file_path = Some(path), !.modified = FALSE],
                 TRUE)
    ELSE IF LoadRaises(s.files[path], io) THEN Returns(s, FALSE)
    ELSE Returns([s EXCEPT
                    !.stamps = LoadedStamps(s.files[path], g),
                    !.alias = Fresh(Len(StampsOf(s.files[path]))),
                    !.file_path = Some(path),
                    !.modified = FALSE],
                 TRUE)

\* StampDatabase.clear
db_clear(s) ==
    [s EXCEPT !.stamps = <<>>, !.alias = <<>>, !.file_path = None,
              !.modified = FALSE]

\* StampDatabase.delete_stamp
db_delete_stamp(s, unique_id) ==
    LET i == FirstIndex(s.stamps, unique_id)
    IN  IF i # 0
        THEN Returns([s EXCEPT !.stamps = RemoveAt(s.stamps, i),
                               !.alias = Canon(RemoveAt(s.alias, i)),
                               !.modified = TRUE],
                     TRUE)
        ELSE Returns(s, FALSE)

\* the buttons of the unsaved-changes prompt
Replies == {"Yes", "No", "Cancel"}

\* the history of one handler: its name, what the user and the file system
\* did in it (about), and whether it did what it was asked for
Handler(op, about, ret) ==
    [op |-> op, id |-> "", about |-> about, ret |-> ret]

\* what the user answered to the prompt and whether the save that followed
\* a Yes succeeded
Prompted(reply, save_ok) == [reply |-> reply, save_ok |-> save_ok]

\* StampController.save_database: the path is asked for when none is bound
\* (chosen is what the file dialog returns, "" when it is cancelled)
save_database_result(s, chosen, io) ==
    IF ~Truthy(s.file_path)
    THEN IF chosen = "" THEN Returns(s, FALSE)
         ELSE db_save(s, Some(chosen), io)
    ELSE db_save(s, None, io)

\* the prompt is over: the store after it, whether the handler goes on, and
\* whether a save was made and succeeded
Decided(s, go, save_ok) == [s |-> s, ret |-> go, save_ok |-> save_ok]

\* (variant: the handler goes on after a save that failed or was cancelled)
AfterPrompt_ignores_failed_save(s, reply, chosen, io) ==
    IF ~s.modified THEN Decided(s, TRUE, FALSE)
    ELSE IF reply = "Cancel" THEN Decided(s, FALSE, FALSE)
    ELSE IF reply = "Yes"
    THEN LET r == save_database_result(s, chosen, io)
         IN  Decided(r.s, TRUE, r.ret)
    ELSE Decided(s, TRUE, FALSE)

\* the unsaved-changes prompt of load_database and new_database
AfterPrompt(s, reply, chosen, io) ==
    IF ~s.modified THEN Decided(s, TRUE, FALSE)
    ELSE IF reply = "Cancel" THEN Decided(s, FALSE, FALSE)
    ELSE IF reply = "Yes"
    THEN LET r == save_database_result(s, chosen, io)
         IN  Decided(r.s, r.ret, r.ret)
    ELSE Decided(s, TRUE, FALSE)

\* StampController.save_database, from the menu
save_database(chosen, io) ==
    LET r == save_database_result(Now, chosen, io)
    IN  /\ Becomes(r.s)
        /\ last' = Handler("save_database", Prompted("none", r.ret), r.ret)

\* StampController.load_database: opened is what the open dialog returns
load_database(opened, reply, chosen, save_io, load_io) ==
    IF opened = ""
    THEN /\ last' = Handler("load_database", Prompted("none", FALSE), FALSE)
         /\ UNCHANGED <<stamps, alias, file_path, modified, files, saved>>
    ELSE LET p == AfterPrompt(Now, reply, chosen, save_io)
             about == Prompted(reply, p.save_ok)
         IN  IF ~p.ret
             THEN /\ Becomes(p.s)
                  /\ last' = Handler("load_database", about, FALSE)
             ELSE \E g \in LoadChoices(p.s, opened) :
                     LET r == db_load(p.s, opened, load_io, g)
                     IN  /\ Becomes(r.s)
                         /\ last' = Handler("load_database", about, r.ret)

\* StampController.new_database
new_database(reply, chosen, save_io) ==
    LET p == AfterPrompt(Now, reply, chosen, save_io)
        about == Prompted(reply, p.save_ok)
    IN  IF ~p.ret
        THEN /\ Becomes(p.s)
             /\ last' = Handler("new_database", about, FALSE)
        ELSE /\ Becomes(db_clear(p.s))
             /\ last' = Handler("new_database", about, TRUE)

\* what the user would do with the stamp dialog and what the file system
\* would do to the save that follows
Dialog(unique_id, accepted, io, raised) ==
    [id |-> unique_id, accepted |-> accepted, io |-> io, raised |-> raised]

\* StampController.add_stamp: StampDialog(self.view, validation_callback=...)
\* raises TypeError, because StampDialog.__init__ (src/view.py) takes parent,
\* stamp and database only; the handler ends there, before dialog.exec()
controller_add_stamp(accepted, io) ==
    /\ last' = Handler("add_stamp", Dialog("", accepted, io, TRUE), FALSE)
    /\ UNCHANGED <<stamps, alias, file_path, modified, files, saved>>

\* StampController.edit_stamp: get_stamp, then the same constructor call
edit_stamp(unique_id, accepted, io) ==
    /\ last' = Handler("edit_stamp",
                       Dialog(unique_id, accepted, io,
                              FirstIndex(stamps, unique_id) # 0),
                       FALSE)
    /\ UNCHANGED <<stamps, alias, file_path, modified, files, saved>>

\* StampController.delete_stamp
controller_delete_stamp(unique_id) ==
    LET r == db_delete_stamp(Now, unique_id)
    IN  /\ Becomes(r.s)
        /\ last' = Handler("delete_stamp", Dialog(unique_id, FALSE, "ok", FALSE),
                           r.ret)

\* a document of two records, written by an earlier run of the program
TwoRecordsDoc == SaveDocument(<<Stamp("a", "rare"), Stamp("b", "")>>)

\* StampController.__init__: an empty store; a.json is on disk
InitController ==
    /\ stamps = <<>>
    /\ alias = <<>>
    /\ file_path = None
    /\ modified = FALSE
    /\ \E f \in {TwoRecordsDoc, LegacyDoc, Malformed} :
          files = [n \in FileNames |-> IF n = "a.json" THEN f ELSE NoFile]
    /\ saved = [n \in FileNames |-> None]
    /\ last = Call("init", "", TRUE)

\* the answers that are asked for: the prompt appears on a dirty store, the
\* save dialog after Yes on an unbound store, and the write after Yes
RepliesAsked == IF modified THEN Replies ELSE {"none"}

SaveChoices(reply) ==
    IF reply = "Yes" /\ ~Truthy(file_path) THEN Paths ELSE {""}

SaveOutcomes(reply) == IF reply = "Yes" THEN SaveIO ELSE {"ok"}

\* the open dialog returns an existing file, or "" when it is cancelled
OpenChoices == {""} \cup {n \in FileNames : Exists(files, n)}

NextController ==
    \/ \E chosen \in SaveChoices("Yes"), io \in SaveIO :
          save_database(chosen, io)
    \/ \E opened \in OpenChoices, reply \in RepliesAsked, load_io \in LoadIO :
          \E chosen \in SaveChoices(reply), save_io \in SaveOutcomes(reply) :
             load_database(opened, reply, chosen, save_io, load_io)
    \/ \E reply \in RepliesAsked :
          \E chosen \in SaveChoices(reply), save_io \in SaveOutcomes(reply) :
             new_database(reply, chosen, save_io)
    \/ \E accepted \in BOOLEAN, io \in SaveIO :
          controller_add_stamp(accepted, io)
    \/ \E unique_id \in Ids, accepted \in BOOLEAN, io \in SaveIO :
          edit_stamp(unique_id, accepted, io)
    \/ \E unique_id \in Ids : controller_delete_stamp(unique_id)

SpecController == InitController /\ [][NextController]_vars

(***************************************************************************)
(* Properties of the Collection Store                                      *)
(***************************************************************************)
NoDuplicateIds(seq) ==
    \A i, j \in 1..Len(seq) : i # j => seq[i].unique_id # seq[j].unique_id

OtherFields == FieldNames \ {"unique_id"}

\* C1: in every state reachable by add, update, delete, load, save and clear
\* no two records of the store's sequence have the same id.
C1_UniqueIds == NoDuplicateIds(stamps)

\* C2: the dirty flag is true right after every successful add, update or
\* delete, and false right after every successful load, save or clear.
C2_DirtyFlag ==
    /\ (last.op \in {"add", "update", "delete"} /\ last.ret) => modified
    /\ (last.op \in {"load", "save", "clear"} /\ last.ret) => ~modified

\* a store that was saved to its file is made dirty again by a delete
C2_Witness ==
    /\ last.op = "delete"
    /\ last.ret
    /\ modified
    /\ file_path = Some("a.json")
    /\ saved["a.json"] # None

\* C3: update(id, r) for an id present in the store, whatever id r carries,
\* returns success, and the record then stored at the position of the first
\* match has the original id and r's other fields.
C3_UpdateKeepsId ==
    [][\A unique_id \in Ids : \A arg \in StampArgs(StampInputs) :
          LET i == FirstIndex(stamps, unique_id)
          IN  (last'.op = "update" /\ i # 0 /\ update_stamp(unique_id, arg)) =>
                 /\ last'.ret = TRUE
                 /\ Len(stamps') = Len(stamps)
                 /\ stamps'[i].unique_id = unique_id
                 /\ \A f \in OtherFields : stamps'[i][f] = arg.stamp[f]]_vars

\* an update has replaced the second of two records with different ids
C3_Witness ==
    /\ last.op = "update"
    /\ last.ret
    /\ Len(stamps) = 2
    /\ alias = <<1, 2>>
    /\ stamps[1].unique_id = "a"
    /\ stamps[2].unique_id = "b"
    /\ stamps[2].keywords = "rare"

\* C4: update(id, r) for an id that matches no record returns failure and
\* leaves the record sequence, the bound path and the dirty flag as they were.
C4_UpdateMiss ==
    [][\A unique_id \in Ids : \A arg \in StampArgs(StampInputs) :
          ( /\ last'.op = "update"
            /\ FirstIndex(stamps, unique_id) = 0
            /\ update_stamp(unique_id, arg) )
             => /\ last'.ret = FALSE
                /\ UNCHANGED <<stamps, alias, file_path, modified>>]_vars

\* a failed update of a clean, bound, non-empty store
C4_Witness ==
    /\ last.op = "update"
    /\ ~last.ret
    /\ stamps # <<>>
    /\ ~modified
    /\ file_path = Some("a.json")

\* C5: if delete(id) is called, a get(id) that follows it immediately returns
\* not-found.
C5_DeleteThenGet ==
    [][\A unique_id \in Ids :
          ( /\ last.op = "delete"
            /\ last.id = unique_id
            /\ last'.op = "get"
            /\ get_stamp(unique_id) )
             => last'.ret = FALSE]_vars

\* C6: a second delete(id) right after a first delete(id) returns failure and
\* leaves the record sequence, the bound path and the dirty flag unchanged.
C6_DeleteTwice ==
    [][\A unique_id \in Ids :
          ( /\ last.op = "delete"
            /\ last.id = unique_id
            /\ last'.op = "delete"
            /\ delete_stamp(unique_id) )
             => /\ last'.ret = FALSE
                /\ UNCHANGED <<stamps, alias, file_path, modified>>]_vars

\* C7: a load that fails (open fails, malformed JSON, a top level without
\* .get, a record object from_dict rejects) returns failure and leaves the
\* record sequence, the bound path and the dirty flag as before; no prefix of
\* the document's records is applied.
C7_FailedLoad ==
    [][\A path \in Paths : \A io \in LoadIO :
          (last'.op = "load" /\ load(path, io)) =>
             /\ ( Exists(files, path)
                  /\ \/ io = "open_fails"
                     \/ files[path].kind = "malformed"
                     \/ files[path].top # "dict"
                     \/ \E i \in 1..Len(files[path].stamps) :
                           ~(Keys(files[path].stamps[i]) \subseteq FieldNames) )
                => last'.ret = FALSE
             /\ last'.ret = FALSE
                => UNCHANGED <<stamps, alias, file_path, modified>>]_vars

\* a dirty, non-empty store after the failed load of a document whose second
\* record object is rejected
C7_Witness ==
    /\ last.op = "load"
    /\ ~last.ret
    /\ files["a.json"] = BadRecordDoc
    /\ Len(stamps) = 2
    /\ stamps[1].unique_id = "a"
    /\ modified

\* C8: a successful save(path) followed by load(path), into whatever state the
\* store is in by then, yields the saved record sequence: same length, same
\* order, every field of every record equal.
C8_SaveLoadRoundTrip ==
    [][\A path \in FileNames :
          (last'.op = "load" /\ saved[path] # None /\ load(path, "ok")) =>
             /\ last'.ret = TRUE
             /\ stamps' = TheValue(saved[path])]_vars

\* two records, one with keywords unset and one with keywords, loaded back
\* from the file a save wrote
C8_Witness ==
    /\ last.op = "load"
    /\ last.ret
    /\ file_path = Some("a.json")
    /\ saved["a.json"] # None
    /\ Len(stamps) = 2
    /\ stamps[1].keywords = ""
    /\ stamps[2].keywords = "rare"
    /\ stamps[1].unique_id # stamps[2].unique_id

\* load(path) finds no file and a save() without a path follows it
LoadMissingThenSave(path) ==
    /\ (last'.op = "load" /\ ~Exists(files, path) /\ load(path, "ok")) =>
          /\ last'.ret = TRUE
          /\ stamps' = <<>>
          /\ file_path' = Some(path)
          /\ modified' = FALSE
    /\ ( /\ last.op = "load"
         /\ last.ret
         /\ file_path = Some(path)
         /\ ~Exists(files, path)
         /\ last'.op = "save"
         /\ save(None, "ok") ) =>
          /\ last'.ret = TRUE
          /\ path \in FileNames
          /\ files' = [files EXCEPT ![path] = SaveDocument(stamps)]
          /\ file_path' = Some(path)

C10_FailedSave ==
    [][\A path_arg \in PathArgs(Paths) : \A io \in SaveIO :
          (last'.op = "save" /\ save(path_arg, io)) =>
             /\ (~Truthy(SavePath(path_arg)) \/ io # "ok") => last'.ret = FALSE
             /\ last'.ret = FALSE
                => UNCHANGED <<stamps, alias, file_path, modified>>
             /\ ~Truthy(SavePath(path_arg)) => files' = files]_vars

\* a dirty, unbound, non-empty store after save() without a path
C10_Witness ==
    /\ last.op = "save"
    /\ ~last.ret
    /\ file_path = None
    /\ modified
    /\ stamps # <<>>

\* C11: a successful save writes the document of the record sequence to the
\* path given as argument when one is given (a non-empty string) and otherwise
\* to the bound path; afterwards the store is bound to the path written, and
\* the record sequence is as before.
C11_SaveTarget ==
    [][\A path_arg \in PathArgs(Paths) :
          (last'.op = "save" /\ save(path_arg, "ok") /\ last'.ret = TRUE) =>
             LET target == IF path_arg # None /\ path_arg # Some("")
                           THEN path_arg ELSE file_path
             IN  /\ target \in {Some(n) : n \in FileNames}
                 /\ files' = [files EXCEPT
                                ![TheValue(target)] = SaveDocument(stamps)]
                 /\ file_path' = target
                 /\ stamps' = stamps
                 /\ alias' = alias]_vars

\* a store saved under one name and, after a change, under the other name
C11_Witness ==
    /\ last.op = "save"
    /\ last.ret
    /\ file_path = Some("b.json")
    /\ saved["a.json"] # None
    /\ saved["b.json"] # None
    /\ saved["a.json"] # saved["b.json"]
    /\ files["b.json"] = SaveDocument(stamps)

\* C12: right after clear() the record sequence is empty, no path is bound
\* and the dirty flag is false, whatever the store held before.
C12_Clear ==
    [][(last'.op = "clear" /\ clear) =>
          /\ stamps' = <<>>
          /\ file_path' = None
          /\ modified' = FALSE]_vars

\* a cleared store whose records had been saved to a file
C12_Witness ==
    /\ last.op = "clear"
    /\ stamps = <<>>
    /\ file_path = None
    /\ ~modified
    /\ saved["a.json"] # None
    /\ saved["a.json"] # Some(<<>>)

\* C13: get_all_stamps returns the store's sequence in a list of its own:
\* appending to, removing from, reversing or clearing the returned list leaves
\* the store's sequence as it was, so a later get_all_stamps returns it again.
C13_GetAllIsCopy ==
    [][/\ last'.op = "get_all" =>
             /\ last'.ret.stamps = stamps
             /\ stamps' = stamps
       /\ last'.op = "list_op" =>
             /\ stamps' = stamps
             /\ alias' = alias]_vars

\* the caller has emptied the list it got from a store of two records
C13_Witness ==
    /\ last.op = "list_op"
    /\ last.ret.stamps = <<>>
    /\ Len(stamps) = 2

\* C14: add is never rejected: whatever the store holds and whatever record
\* is given (also one whose name, image path or id is already stored), the
\* sequence after add_stamp is the old one with that record appended last, and
\* the total count has grown by exactly 1.
C14_AddAppends ==
    [][\A arg \in StampArgs(ListStamps) :
          (last'.op = "add" /\ add_stamp(arg)) =>
             /\ stamps' = Append(stamps, arg.stamp)
             /\ get_total_count' = get_total_count + 1]_vars

\* a record was added whose name and image path another record already has
C14_Witness ==
    /\ last.op = "add"
    /\ Len(stamps) = 2
    /\ stamps[1].name = stamps[2].name
    /\ stamps[1].image_path = stamps[2].image_path
    /\ stamps[1].unique_id # stamps[2].unique_id
    /\ stamps[2].name = "Penny Black"

(***************************************************************************)
(* Properties of the queries                                               *)
(***************************************************************************)
\* the fields a search looks at
SearchedFields ==
    {"name", "country", "dates", "collection_number", "catalogue_ids",
     "keywords", "comments"}

\* some searched field of the record, lower-cased, contains the trimmed and
\* lower-cased text
Hit(stamp, text) ==
    \E f \in SearchedFields : Contains(lower(strip(text)), lower(stamp[f]))

\* the decade of a year: the multiple of 10 among year - 9 .. year
DecadeOf(year) == CHOOSE d \in {year - k : k \in 0..9} : d % 10 = 0

\* the decade label of a text: "Unknown" when it does not parse as a date
DecadeLabelOf(dates) ==
    IF parse_date_field(dates) = None THEN "Unknown"
    ELSE StrOfNat(DecadeOf(TheValue(parse_date_field(dates)))) \o "s"

\* the mapping from each label that occurs to the number of its occurrences
CountsOf(labels) ==
    {<<l, Cardinality({i \in DOMAIN labels : labels[i] = l})>> :
        l \in {labels[i] : i \in DOMAIN labels}}

\* C15: get_filtered_stamps returns, in store order, exactly the records that
\* satisfy all three criteria: they match the search text as search does
\* (every record when the text is blank); their country equals the country
\* filter unless it is 'All Countries'; and, unless the decade filter is
\* 'All Decades', their dates do not parse when the filter is 'Unknown' and
\* otherwise parse to a year whose decade is the one the filter names.
C15_CombinedFilter ==
    last.op = "filter" =>
       LET text == last.args[1]
           country == last.args[2]
           decade == last.args[3]
           Satisfies(stamp) ==
               /\ strip(text) = "" \/ Hit(stamp, text)
               /\ country = "All Countries" \/ stamp.country = country
               /\ \/ decade = "All Decades"
                  \/ decade = "Unknown" /\ parse_date_field(stamp.dates) = None
                  \/ decade # "Unknown" /\ DecadeLabelOf(stamp.dates) = decade
       IN  last.ret = SelectSeq(stamps, Satisfies)

\* of three records that all match the text, one is left by the country
\* filter (which tells "UK" from "uk") and the decade filter
C15_Witness ==
    /\ last.op = "filter"
    /\ last.args = <<"penny", "UK", "1840s">>
    /\ Len(stamps) = 3
    /\ stamps[1].country = "uk"
    /\ stamps[2].dates = "invalid"
    /\ stamps[3].country = "UK"
    /\ last.ret = <<stamps[3]>>

\* C16: search with a blank text returns every record; otherwise it returns,
\* in store order and each record once, exactly the records of which some
\* searched field, lower-cased, contains the trimmed, lower-cased text.
C16_Search ==
    last.op = "search" =>
       LET text == last.args[1]
           Found(stamp) == Hit(stamp, text)
       IN  last.ret = IF strip(text) = "" THEN stamps
                      ELSE SelectSeq(stamps, Found)

\* a text with whitespace around it and in another case finds the first and
\* the third of three records, the first through two of its fields
C16_Witness ==
    /\ last.op = "search"
    /\ last.args = <<" Penny\t">>
    /\ Len(stamps) = 3
    /\ stamps[1].name = "Penny Black"
    /\ stamps[1].comments = "penny"
    /\ stamps[2].name = "Blue"
    /\ last.ret = <<stamps[1], stamps[3]>>

\* C17: search is case-insensitive: a search for a text, for the text in
\* upper case and for the text in lower case return the same list.
C17_CaseInsensitive ==
    last.op = "search" =>
       /\ last.ret = search_stamps(upper(last.args[1]))
       /\ last.ret = search_stamps(lower(last.args[1]))

\* C18: is_name_in_use(name, exclude_id) is true exactly when name is not
\* blank and a record whose id is not exclude_id has exactly that name;
\* is_image_path_in_use is the same on image_path.
C18_InUse ==
    /\ last.op = "name_in_use" =>
          ( last.ret <=>
               /\ strip(last.args[1]) # ""
               /\ \E i \in 1..Len(stamps) :
                     /\ stamps[i].unique_id \notin last.args[2]
                     /\ stamps[i].name = last.args[1] )
    /\ last.op = "image_path_in_use" =>
          ( last.ret <=>
               /\ strip(last.args[1]) # ""
               /\ \E i \in 1..Len(stamps) :
                     /\ stamps[i].unique_id \notin last.args[2]
                     /\ stamps[i].image_path = last.args[1] )

\* the name is that of the excluded record only; another record has it in
\* lower case and with a space after it
C18_Witness ==
    /\ last.op = "name_in_use"
    /\ last.args = <<"Penny Black", Some("a")>>
    /\ last.ret = FALSE
    /\ Len(stamps) = 2
    /\ stamps[1].name = "Penny Black"
    /\ stamps[2].name = "penny black "

\* C19: get_country_statistics maps each label to the number of records whose
\* country, blank ones being replaced by 'Unknown', is that label; no label
\* has count 0, and the mapping of an empty store is empty.
C19_CountryStatistics ==
    last.op = "country_statistics" =>
       LET labels == [i \in 1..Len(stamps) |->
                         IF strip(stamps[i].country) = "" THEN "Unknown"
                         ELSE stamps[i].country]
       IN  /\ last.ret = CountsOf(labels)
           /\ \A kv \in last.ret : kv[2] > 0
           /\ stamps = <<>> => last.ret = {}

\* a whitespace-only country, an empty country and the country "UK"
C19_Witness ==
    /\ last.op = "country_statistics"
    /\ Len(stamps) = 3
    /\ stamps[1].country = " "
    /\ stamps[2].country = "UK"
    /\ stamps[3].country = ""
    /\ last.ret = {<<"Unknown", 2>>, <<"UK", 1>>}

\* C20: get_decade_statistics maps the label '<decade>s' to the number of
\* records whose dates parse into that decade and 'Unknown' to the number of
\* records whose dates do not parse; labels with count 0 are absent; the dates
\* '1840', '1845', 'invalid' give {1840s: 2, Unknown: 1}.
C20_DecadeStatistics ==
    last.op = "decade_statistics" =>
       LET dates == [i \in 1..Len(stamps) |-> stamps[i].dates]
       IN  /\ last.ret = CountsOf([i \in 1..Len(stamps) |->
                                     DecadeLabelOf(dates[i])])
           /\ \A kv \in last.ret : kv[2] > 0
           /\ dates = <<"1840", "1845", "invalid">>
                 => last.ret = {<<"1840s", 2>>, <<"Unknown", 1>>}

\* the statistics of the three records dated '1840', '1845' and 'invalid'
C20_Witness ==
    /\ last.op = "decade_statistics"
    /\ Len(stamps) = 3
    /\ stamps[1].dates = "1840"
    /\ stamps[2].dates = "1845"
    /\ stamps[3].dates = "invalid"
    /\ last.ret = {<<"1840s", 2>>, <<"Unknown", 1>>}

(***************************************************************************)
(* Properties of loading, of the date helpers and of the controller        *)
(***************************************************************************)
\* C21: the load of a document whose record objects omit some fields (for
\* example keywords) succeeds; each loaded record has the empty string in
\* every omitted text field and the persisted value, the persisted id
\* included, in every field that is present.
C21_LoadOmittedFields ==
    [][(last'.op = "load" /\ load("a.json", "ok")) =>
          LET dicts == files["a.json"].stamps
          IN  /\ last'.ret = TRUE
              /\ Len(stamps') = Len(dicts)
              /\ \A i \in 1..Len(dicts) : \A f \in FieldNames :
                    IF \E kv \in dicts[i] : kv[1] = f
                    THEN <<f, stamps'[i][f]>> \in dicts[i]
                    ELSE f # "unique_id" => stamps'[i][f] = ""]_vars

\* a document whose first record object omits four text fields and whose
\* second omits the id has been loaded
C21_Witness ==
    /\ last.op = "load"
    /\ last.ret
    /\ Len(stamps) = 2
    /\ Keys(files["a.json"].stamps[1]) =
          FieldNames \ {"keywords", "comments", "catalogue_ids",
                        "collection_number"}
    /\ "unique_id" \notin Keys(files["a.json"].stamps[2])
    /\ stamps[1] = [FullStamp("b") EXCEPT !.keywords = "", !.comments = "",
                                          !.catalogue_ids = "",
                                          !.collection_number = ""]
    /\ stamps[2].name = "Penny Black"
    /\ stamps[2].unique_id \in UUIDs

\* what a date text put together from its parts stands for: the year of its
\* body, and nothing when a second circa prefix follows the first
YearOfParts(part) ==
    IF part.body.kind = "prefixed" /\ part.prefix # "" THEN None
    ELSE part.body.year

\* C22: parse_date_field, after trimming whitespace and stripping one leading
\* case-insensitive 'circa', 'c.' or 'ca.', returns (start + end) // 2 for two
\* four-digit years joined by a hyphen (whitespace optional) or by 'to'
\* (whitespace required, any case), the number for a bare four-digit year, and
\* no value for every other text, the empty string and a five-digit number
\* included.
C22_ParseYear ==
    last.op = "parse_date_field" =>
       /\ last.ret = YearOfParts(last.args[1])
       /\ DateText(last.args[1]) \in {"", "12345"} => last.ret = None

\* the text ' CIRCA 1840<tab>TO 1845' has been parsed to 1842
C22_Witness ==
    /\ last.op = "parse_date_field"
    /\ last.args[1].prefix = "CIRCA"
    /\ last.args[1].body.kind = "to"
    /\ DateText(last.args[1]) = " CIRCA 1840\tTO 1845"
    /\ last.ret = Some(1842)

\* C23: parse_decade_string inverts the decade label: for every year y of
\* 0..9999 the label str(decade of y) + 's' parses to the decade of y;
\* 'Unknown' and every label that is not a number yield no value.
C23_ParseDecadeLabel ==
    /\ last.op = "decade_label" =>
          /\ last.ret.parsed = Some(DecadeOf(last.args[1]))
          /\ last.ret.label # "Unknown"
    /\ last.op = "parse_decade_string" => last.ret = None

\* the label '0s' of the year 5 and the label '1840s' of the year 1845
C23_Witness ==
    /\ last.op = "decade_label"
    /\ \/ last.args[1] = 5 /\ last.ret.label = "0s" /\ last.ret.parsed = {0}
       \/ /\ last.args[1] = 1845
          /\ last.ret.label = "1840s"
          /\ last.ret.parsed = {1840}

\* C24: get_decade_from_year(year) is (year // 10) * 10: for every year of
\* 0..9999 it is a multiple of 10 with decade <= year < decade + 10
\* (1845 -> 1840, 1850 -> 1850).
C24_DecadeOf ==
    last.op = "get_decade_from_year" =>
       LET year == last.args[1]
       IN  /\ last.ret % 10 = 0
           /\ last.ret <= year
           /\ year < last.ret + 10
           /\ year = 1845 => last.ret = 1840
           /\ year = 1850 => last.ret = 1850

\* the decade of 1845 has been computed
C24_Witness ==
    /\ last.op = "get_decade_from_year"
    /\ last.args[1] = 1845
    /\ last.ret = 1840

\* the first position of seq whose record has this id (there is one)
FirstMatch(seq, unique_id) ==
    CHOOSE i \in 1..Len(seq) :
       /\ seq[i].unique_id = unique_id
       /\ \A j \in 1..(i - 1) : seq[j].unique_id # unique_id

\* C25: update and delete preserve insertion order: a successful update
\* changes only the position of the first record whose id matches (the length
\* and every other position are unchanged), and a successful delete removes
\* exactly that first matching record and keeps all other records in their
\* previous relative order.
C25_OrderPreserved ==
    [][/\ \A unique_id \in Ids : \A arg \in StampArgs(StampInputs) :
             (last'.op = "update" /\ last'.ret
                /\ update_stamp(unique_id, arg)) =>
                /\ Len(stamps') = Len(stamps)
                /\ \A k \in 1..Len(stamps) :
                      k # FirstMatch(stamps, unique_id)
                         => stamps'[k] = stamps[k]
       /\ (last'.op = "delete" /\ last'.ret) =>
              LET i == FirstMatch(stamps, last'.id)
              IN  /\ Len(stamps') = Len(stamps) - 1
                  /\ \A k \in 1..Len(stamps') :
                        stamps'[k] = IF k < i THEN stamps[k]
                                     ELSE stamps[k + 1]]_vars

\* C26: in every state reachable through add, update, delete, load, save and
\* clear, failed loads and saves included, if the dirty flag is false and a
\* path is bound, the record list persisted at the bound path (the empty list
\* when no file exists there) equals the in-memory record sequence.
C26_CleanMeansPersisted ==
    (~modified /\ file_path # None) =>
       LET path == TheValue(file_path)
       IN  IF ~Exists(files, path) THEN stamps = <<>>
           ELSE /\ files[path].kind = "json"
                /\ files[path].top = "dict"
                /\ LET dicts == IF files[path].has_stamps
                                THEN files[path].stamps ELSE <<>>
                   IN  /\ Len(dicts) = Len(stamps)
                       /\ \A i \in 1..Len(dicts) : \A f \in FieldNames :
                             IF \E kv \in dicts[i] : kv[1] = f
                             THEN <<f, stamps[i][f]>> \in dicts[i]
                             ELSE stamps[i][f] = ""

RECURSIVE PickFrom(_, _, _)
\* the records of seq, from position i on, at the positions keep selects
PickFrom(seq, keep, i) ==
    IF i > Len(seq) THEN <<>>
    ELSE (IF keep[i] THEN <<seq[i]>> ELSE <<>>) \o PickFrom(seq, keep, i + 1)

\* C29: the decade statistics and the decade filter agree: for every label L
\* of get_decade_statistics the filter with blank search text, 'All
\* Countries' and decade filter L returns exactly as many records as the
\* statistics count for L, and the results for the distinct labels partition
\* the record sequence (every position goes to one label, in order).
C29_StatisticsMatchFilter ==
    last.op = "decade_filters" =>
       LET stats == last.ret.stats
           results == last.ret.results
           labels == {kv[1] : kv \in stats}
       IN  /\ DOMAIN results = labels
           /\ \A kv \in stats : Len(results[kv[1]]) = kv[2]
           /\ \E part \in [1..Len(stamps) -> labels] :
                 \A label \in labels :
                    results[label] =
                       PickFrom(stamps,
                                [i \in 1..Len(stamps) |-> part[i] = label], 1)

\* records of the decades 0 and 1840 and a record without a date: three
\* labels, one record each
C29_Witness ==
    /\ last.op = "decade_filters"
    /\ Len(stamps) = 3
    /\ stamps[1].dates = "0005"
    /\ stamps[2].dates = "1845 - 1850"
    /\ stamps[3].dates = "unknown"
    /\ last.ret.stats = {<<"0s", 1>>, <<"1840s", 1>>, <<"Unknown", 1>>}
    /\ last.ret.results["0s"] = <<stamps[1]>>

ReadOnlyOps ==
    {"get", "get_all", "search", "country_statistics", "decade_statistics",
     "total_count", "name_in_use", "image_path_in_use", "is_modified"}

\* C30: the read-only queries get_stamp, get_all_stamps, search_stamps,
\* get_country_statistics, get_decade_statistics, get_total_count,
\* is_name_in_use, is_image_path_in_use and is_modified leave the record
\* sequence, the bound path and the dirty flag unchanged in every store
\* state, and get_total_count() equals the length of get_all_stamps().
C30_QueriesReadOnly ==
    [][last'.op \in ReadOnlyOps =>
          /\ stamps' = stamps
          /\ alias' = alias
          /\ file_path' = file_path
          /\ modified' = modified
          /\ last'.op = "total_count" => last'.ret = Len(stamps)
          /\ last'.op = "get_all" => Len(last'.ret.stamps) = get_total_count
          /\ last'.op = "is_modified" => last'.ret = modified]_vars

\* the record count of a clean store of two records that is bound to a file
C30_Witness ==
    /\ last.op = "total_count"
    /\ last.ret = 2
    /\ Len(stamps) = 2
    /\ file_path = Some("a.json")
    /\ ~modified

\* C27: the controller never discards unsaved changes without consent: when
\* new_database or load_database runs while the store is dirty, the records
\* are cleared or replaced only if the user answered No to the prompt, or
\* answered Yes and the save succeeded; on Cancel, or on Yes followed by a
\* failed or cancelled save, the record sequence, the bound path and the
\* dirty flag are unchanged.
C27_NoSilentDiscard ==
    [][(last'.op \in {"new_database", "load_database"} /\ modified) =>
          LET reply == last'.about.reply
              saved_first == reply = "Yes" /\ last'.about.save_ok
          IN  /\ (stamps' # stamps) => (reply = "No" \/ saved_first)
              /\ (reply = "Cancel" \/ (reply = "Yes" /\ ~saved_first))
                    => /\ stamps' = stamps
                       /\ alias' = alias
                       /\ file_path' = file_path
                       /\ modified' = modified]_vars

\* the user answered Yes on a dirty store and the save failed: the handler
\* has ended with the record, the path and the flag still there
C27_Witness ==
    /\ last.op \in {"new_database", "load_database"}
    /\ last.about.reply = "Yes"
    /\ ~last.about.save_ok
    /\ modified
    /\ Len(stamps) = 1
    /\ file_path = Some("a.json")
    /\ files["a.json"] = Malformed

====
